---- MODULE Spec2Model ----
(***************************************************************************)
(* Model of research_paper_summarizer_ui.py: the retrying Gemini API       *)
(* client (gemini_api_call), the two stage functions that delegate to it   *)
(* (generate_paper_content, summarize_content) and the button handler that *)
(* sequences the two stages.                                               *)
(*                                                                         *)
(* Python strings on which the code computes (strip, the in operator) are  *)
(* sequences of one-character strings.  Python and JSON values are tagged  *)
(* records, so that a missing field, an empty list and None stay distinct. *)
(***************************************************************************)
EXTENDS Integers, Sequences, FiniteSets, TLC

VARIABLES
    entry,          \* which function the run enters: the button handler or a direct call
    pc,             \* position of the run in the code
    stage,          \* 0: gemini_api_call called directly, 1: from Stage 1, 2: from Stage 2
    paper_input,    \* sidebar: the paper title
    style_input,    \* sidebar: the explanation style
    length_input,   \* sidebar: the explanation length
    stage_args,     \* arguments of the running stage function
    api_args,       \* arguments of the running gemini_api_call
    payload,        \* gemini_api_call: the request payload built before the loop
    i,              \* gemini_api_call: the loop index
    response,       \* gemini_api_call: what the last requests.post produced
    ret,            \* value or exception on its way to the caller
    generated_abstract, \* handler local
    final_summary,  \* handler local
    outcome,        \* what a direct call returned or raised
    trace,          \* run-level events in order: calls, returns, reports, displays
    http,           \* requests and sleeps of the latest gemini_api_call, in order
    sent,           \* requests sent so far, by stage
    json_error_is_request_exception, \* library build: response.json() raises a RequestException subclass
    stage_fault     \* the stage function in which the runtime raises an exception, if any

vars == << entry, pc, stage, paper_input, style_input, length_input, stage_args,
           api_args, payload, i, response, ret, generated_abstract,
           final_summary, outcome, trace, http, sent,
           json_error_is_request_exception, stage_fault >>

----------------------------------------------------------------------------
(* Bounds of the model *)

\* longest text a response carries
MaxTextLen == 2

\* largest retry_count a direct call of gemini_api_call passes
MaxRetryCount == 4

----------------------------------------------------------------------------
(* Python and JSON values *)

PyNone == [t |-> "None"]
PyBytes == [t |-> "bytes"]
PyStr(s) == [t |-> "str", s |-> s]
PyList(items) == [t |-> "list", items |-> items]
PyDict(f) == [t |-> "dict", f |-> f]
EmptyDict == PyDict([k \in {} |-> PyNone])
Exc(name) == [t |-> "exception", name |-> name]
Unbound == [t |-> "unbound"]

IsExc(v) == v.t = "exception"

\* bool(v) for the values the handler tests: a str is true iff it is non-empty
Truthy(v) == v.t = "str" /\ v.s # << >>

\* characters str.strip() removes
Whitespace == {" ", "\t", "\n", "\r"}

RECURSIVE lstrip(_)
lstrip(s) == IF s # << >> /\ Head(s) \in Whitespace THEN lstrip(Tail(s)) ELSE s

RECURSIVE rstrip(_)
rstrip(s) ==
    IF s # << >> /\ s[Len(s)] \in Whitespace THEN rstrip(SubSeq(s, 1, Len(s) - 1)) ELSE s

\* only the leading whitespace removed
strip_leading_only(s) == lstrip(s)

strip(s) == rstrip(lstrip(s))

\* needle in hay, for two str
IsSubstring(needle, hay) ==
    \E k \in 0..(Len(hay) - Len(needle)) : SubSeq(hay, k + 1, k + Len(needle)) = needle

\* d.get(key, default)
DictGet(d, key, default) ==
    IF IsExc(d) THEN d
    ELSE IF d.t = "dict" THEN (IF key \in DOMAIN d.f THEN d.f[key] ELSE default)
    ELSE Exc("AttributeError")

\* v[0]
Index0(v) ==
    IF IsExc(v) THEN v
    ELSE IF v.t = "list" THEN (IF Len(v.items) > 0 THEN v.items[1] ELSE Exc("IndexError"))
    ELSE IF v.t = "str" THEN (IF Len(v.s) > 0 THEN PyStr(<< v.s[1] >>) ELSE Exc("IndexError"))
    ELSE IF v.t = "dict" THEN Exc("KeyError")
    ELSE Exc("TypeError")

\* v.strip()
StripOf(v) ==
    IF IsExc(v) THEN v
    ELSE IF v.t = "str" THEN PyStr(strip(v.s))
    ELSE Exc("AttributeError")

----------------------------------------------------------------------------
(* Module constants *)

TEMPERATURE_SUMMARIZE == 7      \* 0.7, in tenths
TEMPERATURE_CREATE == 9         \* 0.9, in tenths
DEFAULT_RETRY_COUNT == 3
ABSTRACT_MAX_TOKENS == 600

SUMMARIZE_KEYWORD == << "S", "u", "m", "m", "a", "r", "i", "z", "e" >>

\* generate_paper_content's system_prompt:
\* "You are an academic writer and expert in AI. Your task is to generate a
\*  detailed, high-quality, and professionally structured abstract for a machine
\*  learning research paper. The abstract must include the motivation, method,
\*  results, and conclusion."
GENERATE_SYSTEM_PROMPT ==
    << "Y", "o", "u", " ", "a", "r", "e", " ", "a", "n", " ", "a", "c", "a", "d", "e",
       "m", "i", "c", " ", "w", "r", "i", "t", "e", "r", " ", "a", "n", "d", " ", "e",
       "x", "p", "e", "r", "t", " ", "i", "n", " ", "A", "I", ".", " ", "Y", "o", "u",
       "r", " ", "t", "a", "s", "k", " ", "i", "s", " ", "t", "o", " ", "g", "e", "n",
       "e", "r", "a", "t", "e", " ", "a", " ", "d", "e", "t", "a", "i", "l", "e", "d",
       ",", " ", "h", "i", "g", "h", "-", "q", "u", "a", "l", "i", "t", "y", ",", " ",
       "a", "n", "d", " ", "p", "r", "o", "f", "e", "s", "s", "i", "o", "n", "a", "l",
       "l", "y", " ", "s", "t", "r", "u", "c", "t", "u", "r", "e", "d", " ", "a", "b",
       "s", "t", "r", "a", "c", "t", " ", "f", "o", "r", " ", "a", " ", "m", "a", "c",
       "h", "i", "n", "e", " ", "l", "e", "a", "r", "n", "i", "n", "g", " ", "r", "e",
       "s", "e", "a", "r", "c", "h", " ", "p", "a", "p", "e", "r", ".", " ", "T", "h",
       "e", " ", "a", "b", "s", "t", "r", "a", "c", "t", " ", "m", "u", "s", "t", " ",
       "i", "n", "c", "l", "u", "d", "e", " ", "t", "h", "e", " ", "m", "o", "t", "i",
       "v", "a", "t", "i", "o", "n", ",", " ", "m", "e", "t", "h", "o", "d", ",", " ",
       "r", "e", "s", "u", "l", "t", "s", ",", " ", "a", "n", "d", " ", "c", "o", "n",
       "c", "l", "u", "s", "i", "o", "n", "." >>

\* summarize_content's system_prompt:
\* "You are a skilled explainer. Your task is to summarize a complex research
\*  paper abstract. You must adhere strictly to the requested style and length.
\*  Do not add any introductory or concluding phrases outside of the summary
\*  content."
SUMMARIZE_SYSTEM_PROMPT ==
    << "Y", "o", "u", " ", "a", "r", "e", " ", "a", " ", "s", "k", "i", "l", "l", "e",
       "d", " ", "e", "x", "p", "l", "a", "i", "n", "e", "r", ".", " ", "Y", "o", "u",
       "r", " ", "t", "a", "s", "k", " ", "i", "s", " ", "t", "o", " ", "s", "u", "m",
       "m", "a", "r", "i", "z", "e", " ", "a", " ", "c", "o", "m", "p", "l", "e", "x",
       " ", "r", "e", "s", "e", "a", "r", "c", "h", " ", "p", "a", "p", "e", "r", " ",
       "a", "b", "s", "t", "r", "a", "c", "t", ".", " ", "Y", "o", "u", " ", "m", "u",
       "s", "t", " ", "a", "d", "h", "e", "r", "e", " ", "s", "t", "r", "i", "c", "t",
       "l", "y", " ", "t", "o", " ", "t", "h", "e", " ", "r", "e", "q", "u", "e", "s",
       "t", "e", "d", " ", "s", "t", "y", "l", "e", " ", "a", "n", "d", " ", "l", "e",
       "n", "g", "t", "h", ".", " ", "D", "o", " ", "n", "o", "t", " ", "a", "d", "d",
       " ", "a", "n", "y", " ", "i", "n", "t", "r", "o", "d", "u", "c", "t", "o", "r",
       "y", " ", "o", "r", " ", "c", "o", "n", "c", "l", "u", "d", "i", "n", "g", " ",
       "p", "h", "r", "a", "s", "e", "s", " ", "o", "u", "t", "s", "i", "d", "e", " ",
       "o", "f", " ", "t", "h", "e", " ", "s", "u", "m", "m", "a", "r", "y", " ", "c",
       "o", "n", "t", "e", "n", "t", "." >>

STYLE_OPTIONS ==
    {"Beginner-Friendly", "Technical", "Code-Oriented", "Mathematical", "Historical Context"}

LENGTH_OPTIONS ==
    {"Short (1-2 paragraphs)", "Medium (3-5 paragraphs)", "Long (detailed explanation)"}

\* the budgets of two lengths exchanged
max_tokens_map_exchanged ==
    ("Short (1-2 paragraphs)" :> 300)
    @@ ("Medium (3-5 paragraphs)" :> 150)
    @@ ("Long (detailed explanation)" :> 450)

max_tokens_map ==
    ("Short (1-2 paragraphs)" :> 150)
    @@ ("Medium (3-5 paragraphs)" :> 300)
    @@ ("Long (detailed explanation)" :> 450)

----------------------------------------------------------------------------
(* Inputs of the model: what the user, a direct caller and the server supply *)

TextChars == {" ", "x"}

\* every text of at most MaxTextLen characters
Texts == UNION {[1..n -> TextChars] : n \in 0..MaxTextLen}

\* titles typed into the custom title field (an empty field included)
Titles == {PyStr(<< >>), PyStr(<< "T" >>)}

\* the styles of the list that the model selects
Styles == STYLE_OPTIONS \cap {"Technical", "Beginner-Friendly"}

\* a length no key of max_tokens_map equals
UNRECOGNIZED_LENGTH == "short"

Entries == {"button", "generate_paper_content", "summarize_content", "gemini_api_call"}

\* the JSON body {"candidates": [{"content": {"parts": [{"text": ...}, ...]}}, ...]}
Part(text) == PyDict([text |-> text])
Candidate(parts) == PyDict([content |-> PyDict([parts |-> PyList(parts)])])
Result(candidates) == PyDict([candidates |-> PyList(candidates)])

OtherText == PyStr(<< "y" >>)

\* a body that is not JSON: response.json() raises
NotJson == [t |-> "not-json"]

WellFormedBodies ==
    {Result(<< Candidate(<< Part(PyStr(s)) >>) >>) : s \in Texts}
    \cup {Result(<< Candidate(<< Part(PyStr(<< "x", " " >>)), Part(OtherText) >>),
                    Candidate(<< Part(OtherText) >>) >>)}

MalformedBodies ==
    { NotJson,
      PyNone,
      PyList(<< >>),
      EmptyDict,
      PyDict([candidates |-> PyNone]),
      Result(<< >>),
      Result(<< PyNone >>),
      Result(<< EmptyDict >>),
      Result(<< PyDict([content |-> EmptyDict]) >>),
      Result(<< Candidate(<< >>) >>),
      Result(<< Candidate(<< EmptyDict >>) >>),
      Result(<< Candidate(<< Part(PyNone) >>) >>) }

Bodies == WellFormedBodies \cup MalformedBodies

Response(status_code, body) ==
    [kind |-> "response", status_code |-> status_code, body |-> body]

PostRaises(name) == [kind |-> "raise", exc |-> name]

\* no request of the running call is outstanding
NoResponse == [kind |-> "none"]

\* what one requests.post can produce
PostOutcomes ==
    {PostRaises("ConnectionError"), PostRaises("Timeout")}
    \cup {Response(200, b) : b \in Bodies}
    \cup {Response(s, NotJson) : s \in {403, 404, 500}}
    \cup {Response(304, b) : b \in {NotJson, Result(<< Candidate(<< Part(PyStr(<< "x" >>)) >>) >>)}}

----------------------------------------------------------------------------
(* Events of the trace *)

CallEvent(fn, args) == [ev |-> "call", fn |-> fn, args |-> args]
ReturnEvent(fn, value, line) == [ev |-> "return", fn |-> fn, value |-> value, line |-> line]
RaiseEvent(fn, exc) == [ev |-> "raise", fn |-> fn, exc |-> exc]
PostEvent(st, idx, body, r) ==
    [ev |-> "post", stage |-> st, i |-> idx,
     contents |-> body.contents, generationConfig |-> body.generationConfig,
     raised |-> IF r.kind = "raise" THEN r.exc ELSE "",
     status_code |-> IF r.kind = "raise" THEN 0 ELSE r.status_code]
SleepEvent(wait_time) == [ev |-> "sleep", wait_time |-> wait_time]
StError(msg) == [ev |-> "st.error", msg |-> msg]
Display(what, value) == [ev |-> "display", what |-> what, value |-> value]
StStop == [ev |-> "st.stop"]

----------------------------------------------------------------------------
(* gemini_api_call *)

\* generation_config: the temperature follows the system instruction
generation_config(max_tokens, system_instruction) ==
    [maxOutputTokens |-> max_tokens,
     temperature |-> IF IsSubstring(SUMMARIZE_KEYWORD, system_instruction.s)
                     THEN TEMPERATURE_SUMMARIZE ELSE TEMPERATURE_CREATE]

\* json.dumps(payload) succeeds
JsonSerializable(body) == body.contents.t # "bytes"

\* response.raise_for_status() raises HTTPError
RaisesForStatus(status_code) == 400 <= status_code /\ status_code < 600

\* the text the try block extracts from the parsed body, or the exception it raises
ExtractText(result) ==
    LET candidate == Index0(DictGet(result, "candidates", PyList(<< EmptyDict >>)))
    IN  StripOf(DictGet(Index0(DictGet(DictGet(candidate, "content", EmptyDict),
                                       "parts", PyList(<< EmptyDict >>))),
                        "text", PyStr(<< >>)))

\* the try block without the 403 branch of lines 54-56
TryBlock_No403Branch(r, json_error_is_request) ==
    IF r.kind = "raise" THEN [ends |-> "RequestException", exc |-> r.exc]
    ELSE IF RaisesForStatus(r.status_code) THEN [ends |-> "RequestException", exc |-> "HTTPError"]
    ELSE IF r.body = NotJson
         THEN [ends |-> IF json_error_is_request THEN "RequestException" ELSE "Exception",
               exc |-> "JSONDecodeError"]
    ELSE LET text == ExtractText(r.body)
         IN  IF IsExc(text) THEN [ends |-> "Exception", exc |-> text.name]
             ELSE [ends |-> "return", text |-> text]

\* how the try block ends for what requests.post produced: the text it returns,
\* the 403 branch, or the exception it raises and the except clause that takes it
TryBlock(r, json_error_is_request) ==
    IF r.kind = "raise" THEN [ends |-> "RequestException", exc |-> r.exc]
    ELSE IF r.status_code = 403 THEN [ends |-> "403"]
    ELSE IF RaisesForStatus(r.status_code) THEN [ends |-> "RequestException", exc |-> "HTTPError"]
    ELSE IF r.body = NotJson
         THEN [ends |-> IF json_error_is_request THEN "RequestException" ELSE "Exception",
               exc |-> "JSONDecodeError"]
    ELSE LET text == ExtractText(r.body)
         IN  IF IsExc(text) THEN [ends |-> "Exception", exc |-> text.name]
             ELSE [ends |-> "return", text |-> text]

\* a linear backoff in place of the exponential one
wait_time_linear(idx) == idx + 1

\* wait_time = 2 ** i
wait_time(idx) == 2 ^ idx

\* a return statement of gemini_api_call
ApiReturns(tr, value, line) ==
    /\ trace' = Append(tr, ReturnEvent("gemini_api_call", value, line))
    /\ ret' = value
    /\ pc' = "api_return"
    /\ i' = i

\* line 71 with the bound retry_count in place of retry_count - 1: the last
\* attempt is followed by a sleep too
ExceptRequestException_SleepsAfterLast(sent_log) ==
    IF i < api_args.retry_count
    THEN /\ http' = Append(sent_log, SleepEvent(wait_time(i)))
         /\ i' = i + 1
         /\ pc' = "for"
         /\ UNCHANGED << trace, ret >>
    ELSE /\ http' = sent_log
         /\ ApiReturns(Append(trace, StError("api_final")), PyStr(<< >>), 75)

\* the retry of lines 71-72 without its time.sleep
ExceptRequestException_NoSleep(sent_log) ==
    IF i < api_args.retry_count - 1
    THEN /\ http' = sent_log
         /\ i' = i + 1
         /\ pc' = "for"
         /\ UNCHANGED << trace, ret >>
    ELSE /\ http' = sent_log
         /\ ApiReturns(Append(trace, StError("api_final")), PyStr(<< >>), 75)

\* the retry of lines 71-72 with an attempt index that does not advance
ExceptRequestException_SameAttempt(sent_log) ==
    IF i < api_args.retry_count - 1
    THEN /\ http' = Append(sent_log, SleepEvent(wait_time(i)))
         /\ i' = i
         /\ pc' = "for"
         /\ UNCHANGED << trace, ret >>
    ELSE /\ http' = sent_log
         /\ ApiReturns(Append(trace, StError("api_final")), PyStr(<< >>), 75)

\* except requests.exceptions.RequestException
ExceptRequestException(sent_log) ==
    IF i < api_args.retry_count - 1
    THEN /\ http' = Append(sent_log, SleepEvent(wait_time(i)))
         /\ i' = i + 1
         /\ pc' = "for"
         /\ UNCHANGED << trace, ret >>
    ELSE /\ http' = sent_log
         /\ ApiReturns(Append(trace, StError("api_final")), PyStr(<< >>), 75)

\* the except clause of lines 76-78 without its st.error
ExceptException_Silent == ApiReturns(trace, PyStr(<< >>), 78)

\* except Exception
ExceptException == ApiReturns(Append(trace, StError("api_unexpected")), PyStr(<< >>), 78)

\* an attempt index kept across calls: the loop goes on from where the last
\* call left it
range_start_CarriedOver == i

\* line 48: range(retry_count) starts every call's loop at index 0
range_start == 0

\* lines 26-46: the generation config, the payload and the URL, built outside the try
gemini_api_call ==
    /\ pc = "gemini_api_call"
    /\ IF api_args.system_instruction.t # "str"
       THEN \* "Summarize" in system_instruction raises TypeError
            /\ trace' = Append(Append(trace, CallEvent("gemini_api_call", stage)),
                               RaiseEvent("gemini_api_call", "TypeError"))
            /\ ret' = Exc("TypeError")
            /\ pc' = "api_return"
            /\ UNCHANGED << payload, i >>
       ELSE /\ trace' = Append(trace, CallEvent("gemini_api_call", stage))
            /\ payload' = [contents |-> api_args.user_prompt,
                           systemInstruction |-> api_args.system_instruction,
                           generationConfig |-> generation_config(api_args.max_tokens,
                                                                  api_args.system_instruction)]
            /\ i' = range_start
            /\ pc' = "for"
            /\ UNCHANGED ret
    /\ http' = << >>
    /\ UNCHANGED << entry, stage, paper_input, style_input, length_input, stage_args,
                    api_args, response, generated_abstract, final_summary, outcome,
                    sent, json_error_is_request_exception, stage_fault >>

\* line 48: for i in range(retry_count); line 79 when the range is exhausted
ForLoop ==
    /\ pc = "for"
    /\ IF i < api_args.retry_count
       THEN /\ pc' = "try"
            /\ UNCHANGED << trace, ret, i >>
       ELSE ApiReturns(trace, PyStr(<< >>), 79)
    /\ UNCHANGED << entry, stage, paper_input, style_input, length_input, stage_args,
                    api_args, payload, response, generated_abstract, final_summary,
                    outcome, http, sent, json_error_is_request_exception, stage_fault >>

\* lines 49-78: one pass of the loop body
Attempt ==
    /\ pc = "try"
    /\ IF ~JsonSerializable(payload)
       THEN \* json.dumps(payload) raises TypeError before anything is sent
            /\ ExceptException
            /\ UNCHANGED << response, http, sent >>
       ELSE \E r \in PostOutcomes :
                LET sent_log == Append(http, PostEvent(stage, i, payload, r))
                    t == TryBlock(r, json_error_is_request_exception)
                IN  /\ response' = r
                    /\ sent' = [sent EXCEPT ![stage] = @ + 1]
                    /\ CASE t.ends = "return" ->
                                http' = sent_log /\ ApiReturns(trace, t.text, 67)
                         [] t.ends = "403" ->
                                /\ http' = sent_log
                                /\ ApiReturns(Append(trace, StError("api_403")), PyStr(<< >>), 56)
                         [] t.ends = "RequestException" -> ExceptRequestException(sent_log)
                         [] t.ends = "Exception" -> http' = sent_log /\ ExceptException
    /\ UNCHANGED << entry, stage, paper_input, style_input, length_input, stage_args,
                    api_args, payload, generated_abstract, final_summary, outcome,
                    json_error_is_request_exception, stage_fault >>

\* gemini_api_call hands its value or exception to its caller
ApiReturn ==
    /\ pc = "api_return"
    /\ IF stage = 0
       THEN /\ outcome' = ret
            /\ pc' = "done"
            /\ UNCHANGED trace
       ELSE LET fn == IF stage = 1 THEN "generate_paper_content" ELSE "summarize_content"
            IN  \* lines 99 and 124: return gemini_api_call(...)
                /\ trace' = Append(trace, IF IsExc(ret) THEN RaiseEvent(fn, ret.name)
                                          ELSE ReturnEvent(fn, ret, IF stage = 1 THEN 99 ELSE 124))
                /\ pc' = "stage_return"
                /\ UNCHANGED outcome
    /\ response' = NoResponse
    /\ UNCHANGED << entry, stage, paper_input, style_input, length_input, stage_args,
                    api_args, payload, i, ret, generated_abstract, final_summary,
                    http, sent, json_error_is_request_exception, stage_fault >>

----------------------------------------------------------------------------
(* The stage functions *)

\* generate_paper_content's user_query, an f-string over the title
AbstractQuery(title) == [t |-> "str", asks |-> "abstract", title |-> title]

\* summarize_content's user_query, an f-string over title, style, length and content
SummaryQuery(content, title, style, length) ==
    [t |-> "str", asks |-> "summary", title |-> title, style |-> style,
     length |-> length, content |-> content]

\* an exception that is not raised by the modelled statements but by the runtime
\* under them while a stage function runs (MemoryError, RecursionError, an error
\* inside st.error or time.sleep in an except clause); a subclass of Exception
RUNTIME_FAULT == "RuntimeError"

\* lines 83-99
generate_paper_content ==
    /\ pc = "generate_paper_content"
    /\ stage' = 1
    /\ IF stage_fault = "stage1"
       THEN /\ trace' = Append(Append(trace, CallEvent("generate_paper_content", stage_args)),
                               RaiseEvent("generate_paper_content", RUNTIME_FAULT))
            /\ ret' = Exc(RUNTIME_FAULT)
            /\ pc' = "stage_return"
            /\ UNCHANGED api_args
       ELSE /\ trace' = Append(trace, CallEvent("generate_paper_content", stage_args))
            /\ api_args' = [user_prompt |-> AbstractQuery(stage_args.title),
                            system_instruction |-> PyStr(GENERATE_SYSTEM_PROMPT),
                            max_tokens |-> ABSTRACT_MAX_TOKENS,
                            retry_count |-> DEFAULT_RETRY_COUNT]
            /\ pc' = "gemini_api_call"
            /\ UNCHANGED ret
    /\ UNCHANGED << entry, paper_input, style_input, length_input, stage_args, payload,
                    i, response, generated_abstract, final_summary, outcome,
                    http, sent, json_error_is_request_exception, stage_fault >>

\* a lookup that falls back to the short budget, as max_tokens_map.get(length, 150)
LookupMaxTokens_Default(length) ==
    [raises |-> FALSE,
     value |-> IF length \in DOMAIN max_tokens_map THEN max_tokens_map[length] ELSE 150]

\* line 110: max_tokens_map[length], a value or the KeyError it raises
LookupMaxTokens(length) ==
    IF length \in DOMAIN max_tokens_map
    THEN [raises |-> FALSE, value |-> max_tokens_map[length]]
    ELSE [raises |-> TRUE, exc |-> "KeyError"]

\* lines 101-124
summarize_content ==
    /\ pc = "summarize_content"
    /\ stage' = 2
    /\ IF stage_fault = "stage2"
       THEN /\ trace' = Append(Append(trace, CallEvent("summarize_content", stage_args)),
                               RaiseEvent("summarize_content", RUNTIME_FAULT))
            /\ ret' = Exc(RUNTIME_FAULT)
            /\ pc' = "stage_return"
            /\ UNCHANGED api_args
       ELSE IF LookupMaxTokens(stage_args.length).raises
       THEN \* max_tokens_map[length] raises KeyError
            /\ trace' = Append(Append(trace, CallEvent("summarize_content", stage_args)),
                               RaiseEvent("summarize_content",
                                          LookupMaxTokens(stage_args.length).exc))
            /\ ret' = Exc(LookupMaxTokens(stage_args.length).exc)
            /\ pc' = "stage_return"
            /\ UNCHANGED api_args
       ELSE /\ trace' = Append(trace, CallEvent("summarize_content", stage_args))
            /\ api_args' = [user_prompt |-> SummaryQuery(stage_args.content, stage_args.title,
                                                         stage_args.style, stage_args.length),
                            system_instruction |-> PyStr(SUMMARIZE_SYSTEM_PROMPT),
                            max_tokens |-> LookupMaxTokens(stage_args.length).value,
                            retry_count |-> DEFAULT_RETRY_COUNT]
            /\ pc' = "gemini_api_call"
            /\ UNCHANGED ret
    /\ UNCHANGED << entry, paper_input, style_input, length_input, stage_args, payload,
                    i, response, generated_abstract, final_summary, outcome,
                    http, sent, json_error_is_request_exception, stage_fault >>

----------------------------------------------------------------------------
(* The Generate & Summarize button handler *)

\* lines 165-172
ButtonHandler ==
    /\ pc = "button"
    /\ IF ~Truthy(paper_input)
       THEN /\ trace' = Append(trace, StError("no_title"))
            /\ pc' = "done"
            /\ UNCHANGED stage_args
       ELSE /\ stage_args' = [title |-> paper_input]
            /\ pc' = "generate_paper_content"
            /\ UNCHANGED trace
    /\ UNCHANGED << entry, stage, paper_input, style_input, length_input, api_args,
                    payload, i, response, ret, generated_abstract, final_summary,
                    outcome, http, sent, json_error_is_request_exception, stage_fault >>

\* the except clauses without st.stop(): the handler goes on to the check that
\* follows the try statement
ExceptStage_NoStop ==
    /\ trace' = Append(trace, StError(IF stage = 1 THEN "stage1_exception"
                                      ELSE "stage2_exception"))
    /\ pc' = IF stage = 1 THEN "check_abstract" ELSE "check_summary"
    /\ UNCHANGED << outcome, generated_abstract, final_summary >>

\* lines 173-175 and 193-195: except Exception as e: st.error(...); st.stop()
ExceptStage ==
    /\ trace' = Append(Append(trace, StError(IF stage = 1 THEN "stage1_exception"
                                             ELSE "stage2_exception")), StStop)
    /\ pc' = "stopped"
    /\ UNCHANGED << outcome, generated_abstract, final_summary >>

\* a stage function hands its value or exception to its caller: the handler's
\* try/except of lines 171-175 and 186-195, or the direct caller
StageReturn ==
    /\ pc = "stage_return"
    /\ IF entry # "button"
       THEN /\ outcome' = ret
            /\ pc' = "done"
            /\ UNCHANGED << trace, generated_abstract, final_summary >>
       ELSE IF IsExc(ret)
       THEN ExceptStage
       ELSE IF stage = 1
       THEN /\ generated_abstract' = ret
            /\ pc' = "check_abstract"
            /\ UNCHANGED << outcome, trace, final_summary >>
       ELSE /\ final_summary' = ret
            /\ pc' = "check_summary"
            /\ UNCHANGED << outcome, trace, generated_abstract >>
    /\ UNCHANGED << entry, stage, paper_input, style_input, length_input, stage_args,
                    api_args, payload, i, response, ret, http, sent,
                    json_error_is_request_exception, stage_fault >>

\* the check of line 178 left out
AbstractMissing_Unchecked == FALSE

\* line 178: if not generated_abstract
AbstractMissing == ~Truthy(generated_abstract)

\* the first two arguments of line 187 exchanged
Stage2Args_Swapped ==
    [content |-> paper_input, title |-> generated_abstract,
     style |-> style_input, length |-> length_input]

\* lines 187-192: the arguments the handler passes to summarize_content
Stage2Args ==
    [content |-> generated_abstract, title |-> paper_input,
     style |-> style_input, length |-> length_input]

\* lines 177-192
CheckAbstract ==
    /\ pc = "check_abstract"
    /\ IF AbstractMissing
       THEN /\ trace' = Append(trace, StError("stage1_empty"))
            /\ pc' = "done"
            /\ UNCHANGED stage_args
       ELSE /\ trace' = Append(trace, Display("summary_header",
                                              << paper_input, style_input, length_input >>))
            /\ stage_args' = Stage2Args
            /\ pc' = "summarize_content"
    /\ UNCHANGED << entry, stage, paper_input, style_input, length_input, api_args,
                    payload, i, response, ret, generated_abstract, final_summary,
                    outcome, http, sent, json_error_is_request_exception, stage_fault >>

\* the check of line 198 left out
SummaryMissing_Unchecked == FALSE

\* line 198: if not final_summary
SummaryMissing == ~Truthy(final_summary)

\* lines 197-207: the report of an empty summary does not end the handler, the
\* summary and the expander with the abstract are rendered in either case
CheckSummary ==
    /\ pc = "check_summary"
    /\ trace' = (IF SummaryMissing THEN Append(trace, StError("stage2_empty")) ELSE trace)
                \o << Display("summary", final_summary),
                      Display("abstract", generated_abstract) >>
    /\ pc' = "done"
    /\ UNCHANGED << entry, stage, paper_input, style_input, length_input, stage_args,
                    api_args, payload, i, response, ret, generated_abstract,
                    final_summary, outcome, http, sent,
                    json_error_is_request_exception, stage_fault >>

----------------------------------------------------------------------------
(* The runs *)

\* the start of a run; faults is where the runtime may raise, lengths is what
\* the length selectbox may hand to the handler
InitWith(faults, lengths) ==
    /\ entry \in Entries
    /\ stage_fault \in faults
    /\ pc = entry
    /\ json_error_is_request_exception \in BOOLEAN
    /\ stage = 0
    /\ i = 0
    /\ payload = Unbound
    /\ response = NoResponse
    /\ ret = Unbound
    /\ generated_abstract = Unbound
    /\ final_summary = Unbound
    /\ outcome = Unbound
    /\ trace = << >>
    /\ http = << >>
    /\ sent = [s \in 0..2 |-> 0]
    /\ IF entry = "button"
       THEN /\ paper_input \in Titles
            /\ style_input \in Styles
            /\ length_input \in lengths
       ELSE /\ paper_input = Unbound
            /\ style_input = Unbound
            /\ length_input = Unbound
    /\ CASE entry = "generate_paper_content" -> stage_args \in [title : Titles]
         [] entry = "summarize_content" ->
                stage_args \in [content : {PyStr(<< "x" >>)}, title : {PyStr(<< "T" >>)},
                                style : Styles,
                                length : LENGTH_OPTIONS \cup {UNRECOGNIZED_LENGTH}]
         [] OTHER -> stage_args = Unbound
    /\ IF entry = "gemini_api_call"
       THEN api_args \in [user_prompt : {PyStr(<< "q" >>), PyBytes},
                          system_instruction : {PyStr(SUMMARIZE_KEYWORD \o << " ", "i", "t" >>),
                                                PyStr(GENERATE_SYSTEM_PROMPT), PyNone},
                          max_tokens : {100},
                          retry_count : 0..MaxRetryCount]
       ELSE api_args = Unbound

\* the program as written: the runtime raises nothing of its own and the
\* selectbox of lines 160-163 returns one of its options
Init == InitWith({"none"}, LENGTH_OPTIONS)

Next ==
    \/ ButtonHandler
    \/ generate_paper_content
    \/ summarize_content
    \/ gemini_api_call
    \/ ForLoop
    \/ Attempt
    \/ ApiReturn
    \/ StageReturn
    \/ CheckAbstract
    \/ CheckSummary

Spec == Init /\ [][Next]_vars

\* gemini_api_call alone, called with arguments of the caller's choice. The call
\* is one sequential thread of control: the loop test, the blocking requests.post
\* and time.sleep each hand control back (every attempt has an outcome), so a
\* step that is enabled is eventually taken.
ApiInit == Init /\ entry = "gemini_api_call"

ApiNext ==
    \/ gemini_api_call
    \/ ForLoop
    \/ Attempt
    \/ ApiReturn

ApiCallSpec == ApiInit /\ [][ApiNext]_vars /\ WF_vars(ApiNext)

\* the handler with a stage function that raises: either the runtime raises
\* while the stage function runs, or length_input is not a key of
\* max_tokens_map. Neither happens in a run of Spec; the try statements of lines
\* 170-175 and 185-195 are written for these runs.
HandlerFaultInit ==
    /\ InitWith({"none", "stage1", "stage2"}, LENGTH_OPTIONS \cup {UNRECOGNIZED_LENGTH})
    /\ entry = "button"

HandlerFaultSpec == HandlerFaultInit /\ [][Next]_vars

----------------------------------------------------------------------------
(* Reading the logs *)

Finished == pc \in {"done", "stopped"}

CallsOf(fn) == {k \in DOMAIN trace : trace[k].ev = "call" /\ trace[k].fn = fn}

ReturnsOf(fn) == {k \in DOMAIN trace : trace[k].ev = "return" /\ trace[k].fn = fn}

RaisesOf(fn) == {k \in DOMAIN trace : trace[k].ev = "raise" /\ trace[k].fn = fn}

Reported(msg) == {k \in DOMAIN trace : trace[k] = StError(msg)}

Posts == {k \in DOMAIN http : http[k].ev = "post"}

Sleeps == {k \in DOMAIN http : http[k].ev = "sleep"}

EmptyString == PyStr(<< >>)

----------------------------------------------------------------------------
(* The orchestration contract *)

\* C1: in a pipeline run, once Stage 1 (generate_paper_content) has returned the
\* empty string, summarize_content is never called and no Stage-2 request is sent.
C1_EmptyAbstractNeverReachesStage2 ==
    (entry = "button"
     /\ \E r \in ReturnsOf("generate_paper_content") : trace[r].value = EmptyString)
    => /\ CallsOf("summarize_content") = {}
       /\ sent[2] = 0
       /\ \A k \in Posts : http[k].stage # 2

\* a finished pipeline run whose Stage 1 returned the empty string
C1_Witness ==
    /\ entry = "button"
    /\ pc = "done"
    /\ \E r \in ReturnsOf("generate_paper_content") : trace[r].value = EmptyString
    /\ Reported("stage1_empty") # {}
    /\ sent[1] > 0

\* C2: in a pipeline run, summarize_content is called at most once, only after
\* generate_paper_content has returned a non-empty text, with exactly that text as
\* its content argument; and a finished run whose Stage 1 returned a non-empty
\* text has called it exactly once.
C2_Stage2OnceWithTheAbstract ==
    entry = "button" =>
        LET returned == ReturnsOf("generate_paper_content")
            called == CallsOf("summarize_content")
        IN  /\ Cardinality(called) <= 1
            /\ \A c \in called :
                    \E r \in returned :
                        /\ r < c
                        /\ Truthy(trace[r].value)
                        /\ trace[c].args.content = trace[r].value
            /\ (Finished /\ \E r \in returned : Truthy(trace[r].value))
                    => Cardinality(called) = 1

\* a finished pipeline run whose Stage 2 was called with the abstract "xx"
C2_Witness ==
    /\ entry = "button"
    /\ pc = "done"
    /\ \E c \in CallsOf("summarize_content") :
            trace[c].args.content = PyStr(<< "x", "x" >>)
    /\ generated_abstract = PyStr(<< "x", "x" >>)
    /\ sent[2] > 0

----------------------------------------------------------------------------
(* The retry protocol of gemini_api_call *)

\* the latest gemini_api_call got past its request construction and has just returned
ApiJustReturned == pc = "api_return" /\ ~IsExc(ret)

\* the log of a call that made n requests, failed on each and slept in between:
\* request 0, sleep 2^0, request 1, sleep 2^1, ..., request n-1
BackoffSchedule(n) ==
    /\ Len(http) = (IF n = 0 THEN 0 ELSE 2 * n - 1)
    /\ \A k \in DOMAIN http :
            IF k % 2 = 1
            THEN http[k].ev = "post" /\ http[k].i = (k - 1) \div 2
            ELSE http[k].ev = "sleep" /\ http[k].wait_time = 2 ^ ((k \div 2) - 1)

\* a failed attempt as the claim lists it: a connection error, a timeout, or a
\* status that is not 2xx and not 403
FailsAsListed(p) ==
    \/ p.raised \in {"ConnectionError", "Timeout"}
    \/ p.raised = "" /\ ~(200 <= p.status_code /\ p.status_code < 300) /\ p.status_code # 403

\* a failed attempt the code retries: a connection error, a timeout, or a 4xx or
\* 5xx status other than 403
FailsTransiently(p) ==
    \/ p.raised \in {"ConnectionError", "Timeout"}
    \/ p.raised = "" /\ 400 <= p.status_code /\ p.status_code < 600 /\ p.status_code # 403

\* C3 as stated: a call whose every attempt ends in a connection error, a timeout
\* or a non-2xx status other than 403 sends exactly retry_count requests, sleeps
\* 2^i seconds after attempt i except the last, and returns the empty string.
C3_AsStated ==
    (ApiJustReturned /\ JsonSerializable(payload) /\ \A k \in Posts : FailsAsListed(http[k]))
    => /\ Cardinality(Posts) = api_args.retry_count
       /\ BackoffSchedule(api_args.retry_count)
       /\ ret = EmptyString

\* C3: a call whose every attempt ends in a connection error, a timeout or a 4xx
\* or 5xx status other than 403 sends exactly retry_count requests, sleeps 2^i
\* seconds after attempt i except the last, and returns the empty string.
C3_RetriesExhausted ==
    (ApiJustReturned /\ JsonSerializable(payload) /\ \A k \in Posts : FailsTransiently(http[k]))
    => /\ Cardinality(Posts) = api_args.retry_count
       /\ sent[stage] = api_args.retry_count
       /\ BackoffSchedule(api_args.retry_count)
       /\ ret = EmptyString

\* a call with retry_count = 4 that failed four times, by status and by transport
C3_Witness ==
    /\ ApiJustReturned
    /\ api_args.retry_count = 4
    /\ Cardinality(Posts) = 4
    /\ \A k \in Posts : FailsTransiently(http[k])
    /\ \E k \in Posts : http[k].status_code = 404
    /\ \E k \in Posts : http[k].raised = "Timeout"
    /\ Cardinality(Sleeps) = 3
    /\ ret = EmptyString

\* C4: a 403 response ends the call on that attempt: it is the last entry of the
\* call's log (no later request, no later sleep), the requests sent are those up
\* to this attempt (one when it is the first), the authorization error is
\* reported once and the call returns the empty string from line 56.
C4_ForbiddenIsNotRetried ==
    \A k \in Posts :
        http[k].status_code = 403 =>
            /\ k = Len(http)
            /\ pc \notin {"for", "try"}
            /\ Cardinality(Posts) = http[k].i + 1
            /\ sent[http[k].stage] = http[k].i + 1
            /\ Cardinality(Reported("api_403")) = 1
            /\ \E r \in ReturnsOf("gemini_api_call") :
                    /\ trace[r].value = EmptyString
                    /\ trace[r].line = 56
                    /\ trace[r - 1] = StError("api_403")
                    /\ \A c \in CallsOf("gemini_api_call") : c < r
            /\ (pc = "api_return" => ret = EmptyString)

\* a call that got 403 on its third attempt, after two transient failures
C4_Witness ==
    /\ pc = "api_return"
    /\ ret = EmptyString
    /\ Len(http) = 5
    /\ http[5].ev = "post" /\ http[5].status_code = 403 /\ http[5].i = 2
    /\ Cardinality(Sleeps) = 2

----------------------------------------------------------------------------
(* Faults and the request parameters *)

\* C5 as stated: gemini_api_call never raises to its caller, whatever its
\* arguments: it hands back a str, and it ends on the attempt where a fault other
\* than a request error occurred.
C5_NeverPropagates ==
    /\ RaisesOf("gemini_api_call") = {}
    /\ (pc = "api_return" => ret.t = "str")
    /\ (entry = "gemini_api_call" /\ pc = "done" => outcome.t = "str")
    /\ (Reported("api_unexpected") # {} => pc \notin {"for", "try"})

\* C6 as stated: every Stage-2 request carries temperature 0.7 and every Stage-1
\* request carries temperature 0.9.
C6_TemperatureByStage ==
    \A k \in Posts :
        /\ http[k].stage = 2 => http[k].generationConfig.temperature = 7
        /\ http[k].stage = 1 => http[k].generationConfig.temperature = 9

----------------------------------------------------------------------------
(* Response extraction *)

Is2xx(r) == r.kind = "response" /\ 200 <= r.status_code /\ r.status_code < 300

\* the body is a JSON object whose candidates[0].content.parts[0].text is a string
HasExpectedText(b) ==
    /\ b.t = "dict" /\ "candidates" \in DOMAIN b.f
    /\ b.f.candidates.t = "list" /\ Len(b.f.candidates.items) > 0
    /\ LET c == b.f.candidates.items[1]
       IN  /\ c.t = "dict" /\ "content" \in DOMAIN c.f
           /\ c.f.content.t = "dict" /\ "parts" \in DOMAIN c.f.content.f
           /\ c.f.content.f.parts.t = "list" /\ Len(c.f.content.f.parts.items) > 0
           /\ LET p == c.f.content.f.parts.items[1]
              IN  p.t = "dict" /\ "text" \in DOMAIN p.f /\ p.f.text.t = "str"

FirstText(b) == b.f.candidates.items[1].f.content.f.parts.items[1].f.text.s

HasEmptyCandidates(b) ==
    /\ b.t = "dict" /\ "candidates" \in DOMAIN b.f
    /\ b.f.candidates = PyList(<< >>)

\* y is x without its leading and trailing whitespace
IsTrimOf(y, x) ==
    /\ y # << >> => y[1] \notin Whitespace /\ y[Len(y)] \notin Whitespace
    /\ \E a \in 0..Len(x) :
            /\ a + Len(y) <= Len(x)
            /\ SubSeq(x, a + 1, a + Len(y)) = y
            /\ \A k \in 1..a : x[k] \in Whitespace
            /\ \A k \in (a + Len(y) + 1)..Len(x) : x[k] \in Whitespace

\* the body cannot be parsed, or it is an object in which one of the fields
\* candidates, content, parts, text is missing or the candidates or parts list is
\* empty
LacksListedStructure(b) ==
    \/ b = NotJson
    \/ /\ b.t = "dict"
       /\ \/ "candidates" \notin DOMAIN b.f
          \/ /\ b.f.candidates.t = "list"
             /\ \/ b.f.candidates.items = << >>
                \/ LET c == b.f.candidates.items[1]
                   IN  /\ c.t = "dict"
                       /\ \/ "content" \notin DOMAIN c.f
                          \/ /\ c.f.content.t = "dict"
                             /\ \/ "parts" \notin DOMAIN c.f.content.f
                                \/ /\ c.f.content.f.parts.t = "list"
                                   /\ \/ c.f.content.f.parts.items = << >>
                                      \/ LET p == c.f.content.f.parts.items[1]
                                         IN  p.t = "dict" /\ "text" \notin DOMAIN p.f

\* C7 as stated: after a 2xx response whose body lacks the expected structure the
\* call ends on that attempt (no retry, no sleep), returns the empty string and
\* reports no error.
C7_MalformedBodyIsSilent ==
    (Is2xx(response) /\ LacksListedStructure(response.body))
    => /\ pc = "api_return"
       /\ ret = EmptyString
       /\ http[Len(http)].ev = "post"
       /\ Reported("api_unexpected") = {}
       /\ Reported("api_final") = {}

\* C8: when a call returns on a 2xx response whose candidates[0].content.parts[0]
\* .text is a string X, it returns X without its leading and trailing whitespace,
\* whatever the other candidates and parts hold; when the response has an empty
\* candidates array it returns the empty string and raises nothing.
C8_Extraction ==
    (pc = "api_return" /\ Is2xx(response))
    => /\ HasExpectedText(response.body)
            => ret.t = "str" /\ IsTrimOf(ret.s, FirstText(response.body))
       /\ HasEmptyCandidates(response.body)
            => ret = EmptyString /\ RaisesOf("gemini_api_call") = {}

\* a call that returned "x" for the text "x " of the first part of the first of
\* two candidates
C8_Witness ==
    /\ pc = "api_return"
    /\ Is2xx(response)
    /\ HasExpectedText(response.body)
    /\ Len(response.body.f.candidates.items) = 2
    /\ FirstText(response.body) = << "x", " " >>
    /\ ret = PyStr(<< "x" >>)

----------------------------------------------------------------------------
(* Token budgets *)

RecognizedLengths ==
    {"Short (1-2 paragraphs)", "Medium (3-5 paragraphs)", "Long (detailed explanation)"}

BudgetOfLength(l) ==
    CASE l = "Short (1-2 paragraphs)" -> 150
      [] l = "Medium (3-5 paragraphs)" -> 300
      [] l = "Long (detailed explanation)" -> 450

\* summarize_content is running or has run in this state
Stage2Called == CallsOf("summarize_content") # {}

\* C9: every Stage-1 request carries the budget 600 and every Stage-2 request the
\* budget 150, 300 or 450 of its short, medium or long length; summarize_content
\* called with one of the three lengths raises nothing and hands that budget to
\* gemini_api_call.
C9_TokenBudgets ==
    /\ \A k \in Posts :
            /\ http[k].stage = 1 => http[k].generationConfig.maxOutputTokens = 600
            /\ http[k].stage = 2 =>
                    /\ http[k].contents.length \in RecognizedLengths
                    /\ http[k].generationConfig.maxOutputTokens
                            = BudgetOfLength(http[k].contents.length)
    /\ (stage = 1 /\ pc \in {"gemini_api_call", "for", "try"}) => api_args.max_tokens = 600
    /\ (Stage2Called /\ stage_args.length \in RecognizedLengths)
            => /\ RaisesOf("summarize_content") = {}
               /\ pc \in {"gemini_api_call", "for", "try"}
                    => api_args.max_tokens = BudgetOfLength(stage_args.length)

\* a Stage-2 request for the long length, carrying 450
C9_Witness ==
    \E k \in Posts :
        /\ http[k].stage = 2
        /\ http[k].contents.length = "Long (detailed explanation)"
        /\ http[k].generationConfig.maxOutputTokens = 450

\* C10: summarize_content called with a length outside the three categories
\* raises KeyError at once: gemini_api_call is not called, no request is sent and
\* the caller gets the exception, not a value.
C10_UnrecognizedLengthFailsFast ==
    (Stage2Called /\ stage_args.length \notin RecognizedLengths)
    => /\ CallsOf("gemini_api_call") = {}
       /\ Posts = {}
       /\ sent[2] = 0
       /\ \E k \in RaisesOf("summarize_content") :
                trace[k].exc = "KeyError" /\ trace[k - 1].ev = "call"
       /\ pc \in {"stage_return", "done", "stopped"}
       /\ ret = Exc("KeyError")
       /\ (entry = "summarize_content" /\ pc = "done") => outcome = Exc("KeyError")

\* a direct call with the length "short" that ended in KeyError
C10_Witness ==
    /\ entry = "summarize_content"
    /\ pc = "done"
    /\ stage_args.length = "short"
    /\ outcome = Exc("KeyError")

----------------------------------------------------------------------------
(* The handler after Stage 2 *)

\* the events of trace after position n
After(n) == { k \in DOMAIN trace : k > n }

\* C11: in a run of the handler where generate_paper_content returned a non-empty
\* abstract and summarize_content returned the empty string, once the handler has
\* finished it has reported the Stage-2 failure exactly once, after Stage 2
\* returned, it has never reported the Stage-1 failure, and after the report it
\* has rendered the abstract that Stage 1 returned.
C11_Stage2FailureKeepsAbstract ==
    (/\ entry = "button"
     /\ Finished
     /\ \E r \in ReturnsOf("generate_paper_content") : Truthy(trace[r].value)
     /\ \E r \in ReturnsOf("summarize_content") : trace[r].value = EmptyString)
    => /\ Cardinality(Reported("stage2_empty")) = 1
       /\ Reported("stage1_empty") = {}
       /\ Reported("stage1_exception") = {}
       /\ \A e \in Reported("stage2_empty") :
            /\ \A r \in ReturnsOf("summarize_content") : r < e
            /\ \E d \in After(e) :
                 /\ trace[d].ev = "display"
                 /\ trace[d].what = "abstract"
                 /\ Truthy(trace[d].value)
                 /\ \E r \in ReturnsOf("generate_paper_content") :
                        trace[r].value = trace[d].value

\* a finished run whose Stage 1 gave "x" and whose Stage 2 gave the empty string
\* after two requests
C11_Witness ==
    /\ entry = "button"
    /\ pc = "done"
    /\ generated_abstract = PyStr(<< "x" >>)
    /\ final_summary = EmptyString
    /\ sent[2] = 2
    /\ Reported("stage2_empty") # {}
    /\ \E d \in DOMAIN trace : trace[d] = Display("abstract", PyStr(<< "x" >>))

----------------------------------------------------------------------------
(* Stage 1 out of attempts *)

\* the Stage-1 call of a handler run is over and each request it sent raised a
\* connection error
Stage1OnlyConnectionErrors ==
    /\ entry = "button"
    /\ stage = 1
    /\ pc \in {"api_return", "stage_return", "check_abstract", "done", "stopped"}
    /\ \A k \in Posts : http[k].raised = "ConnectionError"

\* C12: in a run of the handler (retry_count is the default 3) whose Stage-1
\* requests all raised connection errors, the call sent requests 0, 1 and 2 with
\* sleeps of 1 s and 2 s between them and nothing after the third, three requests
\* were sent in the whole run, none by Stage 2, and once the handler has finished
\* generate_paper_content has returned the empty string, the handler has reported
\* that Stage 1 produced no content and summarize_content was never called.
C12_Stage1ConnectionErrors ==
    Stage1OnlyConnectionErrors
    => /\ api_args.retry_count = DEFAULT_RETRY_COUNT
       /\ BackoffSchedule(3)
       /\ http[2].wait_time = 1 /\ http[4].wait_time = 2
       /\ sent[1] = 3 /\ sent[0] + sent[1] + sent[2] = 3
       /\ sent[2] = 0
       /\ Reported("api_final") # {}
       /\ (pc \notin {"api_return", "stage_return"} =>
             \E r \in ReturnsOf("generate_paper_content") : trace[r].value = EmptyString)
       /\ CallsOf("summarize_content") = {}
       /\ pc # "stopped"
       /\ (pc = "done" =>
             /\ Cardinality(Reported("stage1_empty")) = 1
             /\ generated_abstract = EmptyString
             /\ final_summary = Unbound
             /\ Reported("stage2_empty") = {})

\* a finished run of the handler after three connection errors in Stage 1
C12_Witness ==
    /\ Stage1OnlyConnectionErrors
    /\ pc = "done"
    /\ Cardinality(Posts) = 3
    /\ Cardinality(Sleeps) = 2
    /\ Reported("stage1_empty") # {}

----------------------------------------------------------------------------
(* What gemini_api_call reports *)

\* the messages gemini_api_call itself reports (lines 55, 74 and 77)
API_DIAGNOSTICS == {"api_403", "api_final", "api_unexpected"}

\* the start of the latest gemini_api_call in trace (0 before any call)
LatestCall ==
    IF CallsOf("gemini_api_call") = {} THEN 0
    ELSE CHOOSE c \in CallsOf("gemini_api_call") :
            \A d \in CallsOf("gemini_api_call") : d <= c

\* what the latest gemini_api_call has reported
Diagnostics ==
    { k \in After(LatestCall) : trace[k].ev = "st.error" /\ trace[k].msg \in API_DIAGNOSTICS }

\* how the attempt that ended the latest call ended: the request of the last
\* attempt allowed failed transiently, the response was 403, or a fault that is
\* not a request error occurred (while serializing or while reading the response)
LastAttemptExhausted ==
    /\ http # << >>
    /\ http[Len(http)].ev = "post"
    /\ http[Len(http)].i = api_args.retry_count - 1
    /\ TryBlock(response, json_error_is_request_exception).ends = "RequestException"

LastAttemptForbidden ==
    /\ http # << >>
    /\ http[Len(http)].ev = "post"
    /\ http[Len(http)].status_code = 403

LastAttemptUnexpected ==
    /\ api_args.retry_count > 0
    /\ \/ ~JsonSerializable(payload)
       \/ /\ response # NoResponse
          /\ TryBlock(response, json_error_is_request_exception).ends = "Exception"

----------------------------------------------------------------------------
(* Success after retries *)

\* the latest call has returned on a 2xx response with the expected structure,
\* after requests that all failed transiently
SucceededAfterTransientFailures ==
    /\ ApiJustReturned
    /\ Is2xx(response)
    /\ HasExpectedText(response.body)
    /\ \A k \in Posts : k < Len(http) => FailsTransiently(http[k])

\* C14: a call that failed transiently on attempts 0..k-1 and got a well-formed
\* 2xx response on attempt k has k < retry_count, returns that response's text
\* without leading and trailing whitespace from line 67 and reports nothing; it
\* sent exactly k+1 requests and slept exactly k times, 2^0, ..., 2^(k-1) seconds
\* in that order, one sleep between consecutive requests; the successful request
\* is the last entry of the call's log.
C14_SuccessAfterRetries ==
    SucceededAfterTransientFailures
    => LET k == http[Len(http)].i
       IN  /\ http[Len(http)].ev = "post"
           /\ k < api_args.retry_count
           /\ Cardinality(Posts) = k + 1
           /\ sent[stage] = k + 1
           /\ Cardinality(Sleeps) = k
           /\ BackoffSchedule(k + 1)
           /\ \A j \in 1..k : http[2 * j].wait_time = 2 ^ (j - 1)
           /\ ret.t = "str"
           /\ IsTrimOf(ret.s, FirstText(response.body))
           /\ trace[Len(trace)] = ReturnEvent("gemini_api_call", ret, 67)
           /\ Diagnostics = {}

\* a call that succeeded on attempt 3 of 4 with padded text, after a 500, a
\* timeout and a connection error and sleeps of 1, 2 and 4 seconds
C14_Witness ==
    /\ SucceededAfterTransientFailures
    /\ api_args.retry_count = 4
    /\ Len(http) = 7
    /\ http[1].status_code = 500
    /\ http[3].raised = "Timeout"
    /\ http[5].raised = "ConnectionError"
    /\ << http[2].wait_time, http[4].wait_time, http[6].wait_time >> = << 1, 2, 4 >>
    /\ FirstText(response.body) # ret.s
    /\ ret.s # << >>

----------------------------------------------------------------------------
(* Termination of a call *)

\* the line of the return statement the latest call returned from
ReturnLine == trace[Len(trace)].line

C15_Bounded ==
    pc \in {"for", "try", "api_return"}
    => /\ Cardinality(Posts) <= api_args.retry_count
       /\ Cardinality(Posts) = sent[stage]
       /\ Cardinality(Sleeps) <= Cardinality(Posts)
       /\ (Posts # {} => Cardinality(Sleeps) <= api_args.retry_count - 1)
       /\ (Posts = {} => Sleeps = {})
       /\ (pc = "api_return" =>
             IF IsExc(ret) THEN Posts = {}
             ELSE /\ ret.t = "str"
                  /\ ReturnLine \in {67, 75, 56, 78, 79}
                  /\ (ReturnLine = 79 => api_args.retry_count = 0)
                  /\ (ReturnLine = 75 => Cardinality(Posts) = api_args.retry_count)
                  /\ (ReturnLine # 67 => ret = EmptyString))

----------------------------------------------------------------------------
(* The return after the loop *)

\* C16 as stated: whatever retry_count and the outcomes of the attempts, a call
\* that returns does so from inside the loop: with text (line 67), after a 403
\* (line 56), after the final failed attempt (line 75) or after an unexpected
\* exception (line 78), never from line 79.
C16_ReturnsFromInsideTheLoop ==
    ApiJustReturned => ReturnLine \in {67, 56, 75, 78}

----------------------------------------------------------------------------
(* Independence of the two calls *)

\* the Stage-2 call of a handler run has started its loop
InStage2Call == entry = "button" /\ stage = 2 /\ pc \in {"for", "try", "api_return"}

\* C17: whatever the Stage-1 call of the run did, the Stage-2 call counts its own
\* attempts from 0: its k-th request carries index k - 1, the sleep after it
\* lasts 2^(k-1) seconds (1 s the first), the loop index equals the number of
\* requests this call has sent, it is allowed retry_count = 3 requests of its
\* own, and it gives up only after the third.
C17_Stage2StartsAfresh ==
    InStage2Call
    => /\ api_args.retry_count = DEFAULT_RETRY_COUNT
       /\ \A k \in DOMAIN http :
             IF k % 2 = 1
             THEN http[k].ev = "post" /\ http[k].stage = 2 /\ http[k].i = (k - 1) \div 2
             ELSE http[k].ev = "sleep" /\ http[k].wait_time = 2 ^ ((k \div 2) - 1)
       /\ Cardinality(Posts) = sent[2]
       /\ sent[2] <= DEFAULT_RETRY_COUNT
       /\ (pc = "for" => i = sent[2])
       /\ (pc = "try" => i = sent[2] /\ i < DEFAULT_RETRY_COUNT)
       /\ (pc = "api_return" =>
             /\ ReturnLine # 79
             /\ (ReturnLine = 75 => sent[2] = DEFAULT_RETRY_COUNT))

\* Stage 1 succeeded on its third request, after sleeps of 1 and 2 seconds, and
\* Stage 2 still made three requests of its own with the same sleeps
C17_Witness ==
    /\ InStage2Call
    /\ sent[1] = 3
    /\ pc = "api_return"
    /\ ReturnLine = 75
    /\ Len(http) = 5
    /\ http[1].i = 0 /\ http[2].wait_time = 1 /\ http[4].wait_time = 2 /\ http[5].i = 2

----------------------------------------------------------------------------
(* A stage function that raises *)

\* what the handler has rendered of its results
Displayed(what) == { k \in DOMAIN trace : trace[k].ev = "display" /\ trace[k].what = what }

\* the handler has caught the exception raised at position e of trace: it has
\* reported msg and stopped, and nothing follows
CaughtAndStopped(e, msg) ==
    /\ pc = "stopped"
    /\ Len(trace) = e + 2
    /\ trace[e + 1] = StError(msg)
    /\ trace[e + 2] = StStop

\* C18: in a run of the handler, an exception raised by generate_paper_content is
\* on its way to the handler or has been reported as a Stage-1 error, after which
\* the run has stopped, and summarize_content is never called and no Stage-2
\* request is sent; an exception raised by summarize_content is on its way or
\* has been reported as a Stage-2 error, after which the run has stopped, and
\* neither the summary nor the abstract is ever rendered; the run stops in no
\* other case.
C18_StageExceptionHalts ==
    entry = "button"
    => /\ \A e \in RaisesOf("generate_paper_content") :
             /\ pc = "stage_return" \/ CaughtAndStopped(e, "stage1_exception")
             /\ CallsOf("summarize_content") = {}
             /\ sent[2] = 0
             /\ Reported("stage2_exception") = {}
       /\ \A e \in RaisesOf("summarize_content") :
             /\ pc = "stage_return" \/ CaughtAndStopped(e, "stage2_exception")
             /\ Displayed("summary") = {}
             /\ Displayed("abstract") = {}
             /\ Truthy(generated_abstract)
             /\ Reported("stage1_exception") = {}
             /\ Reported("stage2_empty") = {}
       /\ (pc = "stopped" =>
             RaisesOf("generate_paper_content") \cup RaisesOf("summarize_content") # {})

\* a run stopped after generate_paper_content raised: no Stage-2 call, no request
C18_Stage1Raised ==
    /\ entry = "button"
    /\ pc = "stopped"
    /\ RaisesOf("generate_paper_content") # {}
    /\ Reported("stage1_exception") # {}
    /\ sent[1] = 0

\* a run stopped after summarize_content raised KeyError on the unrecognized
\* length, with the abstract "x" in hand after two Stage-1 requests
C18_Witness ==
    /\ entry = "button"
    /\ pc = "stopped"
    /\ \E e \in RaisesOf("summarize_content") : trace[e].exc = "KeyError"
    /\ length_input = UNRECOGNIZED_LENGTH
    /\ generated_abstract = PyStr(<< "x" >>)
    /\ sent[1] = 2
    /\ Reported("stage2_exception") # {}
    /\ Displayed("summary_header") # {}

====
